---------------------------- MODULE Spec2Model ----------------------------
(* Model of the Sudoku Board of sudoku_solver_gen3.py: the grid, the      *)
(* structural queries, the candidate computation, the MRV cell selection, *)
(* the recursive backtracking solve() and the puzzle generation.          *)
EXTENDS Integers, Sequences, FiniteSets, TLC

VARIABLES
    grid,       \* self.grid: grid[i][j], 0 = empty
    pc,         \* position of the running code
    stack,      \* the active solve() calls that reached line 196, innermost first
    ret,        \* the value returned by the solve() call that returned last
    start,      \* (history) the grid the top-level solve() was called on
    last,       \* (history) the frame of the solve() call that returned last
    checks,     \* the values returned by the is_solved() calls made so far
    difficulty, \* the label given to Board(...)
    cells,      \* line 90-91: the shuffled coordinate list
    ci,         \* position of the loop of line 92 in cells
    num_zeros,  \* line 89
    count,      \* line 95-101: the counter of solved trials, after the last sampling loop
    restores,   \* (history) how many times line 103 ran
    filled,     \* (history) the grid left by the solve() of line 87
    err,        \* the exception that ended construction, "" if none
    held,       \* the value a caller received from get_grid / get_row / get_col
    lastOp,     \* (history) the kind of the last operation after the accessor call
    before,     \* (history) the board and the held value just before the last operation
    ops         \* number of operations performed on the board by the caller

solveVars == <<stack, ret, start, last>>

createVars == <<difficulty, cells, ci, num_zeros, count, restores, filled, err>>

accessVars == <<held, lastOp, before, ops>>

vars == <<grid, pc, checks, solveVars, createVars, accessVars>>

-----------------------------------------------------------------------------
(* Module constants of the program.                                        *)

BOARD_SIZE == 9

BOX_SIZE == 3

Idx == 0 .. (BOARD_SIZE - 1)

Digits == 1 .. 9

None == <<>>

Range(s) == { s[k] : k \in 1 .. Len(s) }

EmptyGrid == [i \in Idx |-> [j \in Idx |-> 0]]

-----------------------------------------------------------------------------
(* Structural queries.                                                     *)

get_row(g, row) == [k \in 1 .. BOARD_SIZE |-> g[row][k - 1]]

get_col(g, col) == [k \in 1 .. BOARD_SIZE |-> g[k - 1][col]]

get_box(g, row, col) ==
    LET box_row == (row \div BOX_SIZE) * BOX_SIZE
        box_col == (col \div BOX_SIZE) * BOX_SIZE
    IN  [k \in 1 .. (BOX_SIZE * BOX_SIZE) |->
            g[box_row + ((k - 1) \div BOX_SIZE)][box_col + ((k - 1) % BOX_SIZE)]]

\* all coordinates in row-major order, the order np.where scans the array
RowMajor == [k \in 1 .. (BOARD_SIZE * BOARD_SIZE) |->
                <<(k - 1) \div BOARD_SIZE, (k - 1) % BOARD_SIZE>>]

get_empty_cells(g) ==
    LET IsZero(c) == g[c[1]][c[2]] = 0
    IN  SelectSeq(RowMajor, IsZero)

\* faulty variant: the column is left out of used_nums
ValidNumbersWithoutCol(g, row, col) ==
    LET used_nums == Range(get_row(g, row) \o get_box(g, row, col))
        Free(num) == num \notin used_nums
    IN  SelectSeq([num \in 1 .. 9 |-> num], Free)

get_valid_numbers(g, row, col) ==
    LET used_nums == Range(get_row(g, row) \o get_col(g, col) \o get_box(g, row, col))
        Free(num) == num \notin used_nums
    IN  SelectSeq([num \in 1 .. 9 |-> num], Free)

\* min(empty_cells, key=...) keeps the first cell whose key is minimal: the
\* least (key, position) pair
get_min_remaining_values_cell(g) ==
    LET empty_cells == get_empty_cells(g)
        keyed == { <<Len(get_valid_numbers(g, empty_cells[k][1], empty_cells[k][2])), k>> :
                      k \in 1 .. Len(empty_cells) }
        best == CHOOSE p \in keyed :
                    \A q \in keyed : p[1] < q[1] \/ (p[1] = q[1] /\ p[2] <= q[2])
    IN  IF empty_cells = <<>> THEN None ELSE empty_cells[best[2]]

\* faulty variant: complete and every cell's digit is the only one missing among
\* its peers, the cell itself set aside
IsSolvedSettingCellAside(g) ==
    /\ get_empty_cells(g) = <<>>
    /\ \A i \in Idx : \A j \in Idx :
          get_valid_numbers([g EXCEPT ![i][j] = 0], i, j) = <<g[i][j]>>

is_solved(g) ==
    /\ get_empty_cells(g) = <<>>
    /\ \A i \in Idx : \A j \in Idx : get_valid_numbers(g, i, j) = <<g[i][j]>>

-----------------------------------------------------------------------------
(* solve(): the recursion as a machine m = [grid, stack, pc, ret, last].   *)
(* A frame of the stack is a call that reached line 196: its cell, its     *)
(* valid_nums, the position k of the for loop, and (history) the grid at   *)
(* the moment the call started.                                            *)

NoCall(g) == [row |-> -1, col |-> -1, valid_nums |-> <<>>, k |-> 0, entry |-> g]

\* lines 192-197: a call of solve() starts
Enter(m) ==
    LET cell == get_min_remaining_values_cell(m.grid)
    IN  IF cell = None
        THEN [m EXCEPT !.ret = TRUE, !.last = NoCall(m.grid), !.pc = "return"]
        ELSE [m EXCEPT !.stack = <<[row |-> cell[1], col |-> cell[2],
                                    valid_nums |-> get_valid_numbers(m.grid, cell[1], cell[2]),
                                    k |-> 1, entry |-> m.grid]>> \o m.stack,
                       !.pc = "loop"]

\* faulty variant: the loop position is placed instead of the candidate
TryPlacesIndex(m) ==
    LET f == Head(m.stack)
    IN  IF f.k <= Len(f.valid_nums)
        THEN [m EXCEPT !.grid[f.row][f.col] = f.k, !.pc = "enter"]
        ELSE [m EXCEPT !.stack = Tail(m.stack), !.ret = FALSE, !.last = f, !.pc = "return"]

\* lines 198-200 and 204: the next candidate is placed and solve() is called
\* on the result, or the candidates are exhausted and the call returns False
Try(m) ==
    LET f == Head(m.stack)
    IN  IF f.k <= Len(f.valid_nums)
        THEN [m EXCEPT !.grid[f.row][f.col] = f.valid_nums[f.k], !.pc = "enter"]
        ELSE [m EXCEPT !.stack = Tail(m.stack), !.ret = FALSE, !.last = f, !.pc = "return"]

\* faulty variant: line 202 is missing: a failed placement is not reset to 0
ReturnWithoutUndo(m) ==
    IF m.stack = <<>> THEN [m EXCEPT !.pc = "done"]
    ELSE LET f == Head(m.stack)
         IN  IF m.ret
             THEN [m EXCEPT !.stack = Tail(m.stack), !.last = f]
             ELSE [m EXCEPT !.stack = <<[f EXCEPT !.k = f.k + 1]>> \o Tail(m.stack),
                            !.pc = "loop"]

\* faulty variant: the for loop does not advance: the failed candidate is tried again
ReturnWithoutAdvance(m) ==
    IF m.stack = <<>> THEN [m EXCEPT !.pc = "done"]
    ELSE LET f == Head(m.stack)
         IN  IF m.ret
             THEN [m EXCEPT !.stack = Tail(m.stack), !.last = f]
             ELSE [m EXCEPT !.grid[f.row][f.col] = 0, !.pc = "loop"]

\* lines 200-202: the caller receives the value of the recursive call; the
\* top-level caller receives the value of solve()
Return(m) ==
    IF m.stack = <<>> THEN [m EXCEPT !.pc = "done"]
    ELSE LET f == Head(m.stack)
         IN  IF m.ret
             THEN [m EXCEPT !.stack = Tail(m.stack), !.last = f]
             ELSE [m EXCEPT !.grid[f.row][f.col] = 0,
                            !.stack = <<[f EXCEPT !.k = f.k + 1]>> \o Tail(m.stack),
                            !.pc = "loop"]

Step(m) ==
    CASE m.pc = "enter"  -> Enter(m)
      [] m.pc = "loop"   -> Try(m)
      [] m.pc = "return" -> Return(m)
      [] OTHER           -> m

\* n steps of the machine, halved so that the evaluation stays shallow
RECURSIVE Run(_, _)
Run(m, n) ==
    IF m.pc = "done" THEN m
    ELSE IF n = 1 THEN Step(m)
    ELSE Run(Run(m, n \div 2), n - (n \div 2))

RECURSIVE RunToDone(_, _)
RunToDone(m, n) ==
    LET r == Run(m, n)
    IN  IF r.pc = "done" THEN r ELSE RunToDone(r, 2 * n)

\* a whole call of solve() on grid g: the value returned and the grid left
solve(g) ==
    LET m == RunToDone([grid |-> g, stack |-> <<>>, pc |-> "enter", ret |-> FALSE,
                        last |-> NoCall(g)], BOARD_SIZE * BOARD_SIZE)
    IN  [ok |-> m.ret, grid |-> m.grid]

-----------------------------------------------------------------------------
(* The grids and shuffles the runs start from.                             *)

NumVariants == 2    \* complete grids the inputs are built from

NumShuffles == 2    \* outcomes of random.shuffle that are explored

NumClears == 3      \* cells cleared next to an unvalidated single-cell write

MaxChecks == 2      \* is_solved() calls after a solve()

MaxOps == 3         \* caller operations after construction

Cells == Idx \X Idx

\* a complete valid grid: the one solve() builds from the empty grid
\* (BaseIsSolveOfEmpty below)
BaseRows ==
    << <<1, 2, 3, 4, 5, 6, 7, 8, 9>>,
       <<4, 5, 6, 7, 8, 9, 1, 2, 3>>,
       <<7, 8, 9, 1, 2, 3, 4, 5, 6>>,
       <<2, 3, 1, 6, 7, 4, 8, 9, 5>>,
       <<8, 7, 5, 9, 1, 2, 3, 6, 4>>,
       <<6, 9, 4, 5, 3, 8, 2, 1, 7>>,
       <<3, 1, 7, 2, 6, 5, 9, 4, 8>>,
       <<5, 4, 2, 8, 9, 7, 6, 3, 1>>,
       <<9, 6, 8, 3, 4, 1, 5, 7, 2>> >>

BaseGrid == [i \in Idx |-> [j \in Idx |-> BaseRows[i + 1][j + 1]]]

\* a complete grid: base transposed for odd v, with its digits relabelled
\* cyclically by v
Variant(base, v) ==
    [i \in Idx |-> [j \in Idx |->
        LET d == IF v % 2 = 1 THEN base[j][i] ELSE base[i][j]
        IN  ((d - 1 + v) % 9) + 1]]

\* a permutation of the 81 coordinates (3s + 1 is coprime to 81)
Shuffle(s) ==
    [n \in 1 .. (BOARD_SIZE * BOARD_SIZE) |->
        LET m == ((3 * s + 1) * (n - 1) + 7 * s + 40) % (BOARD_SIZE * BOARD_SIZE)
        IN  <<m \div BOARD_SIZE, m % BOARD_SIZE>>]

Prefix(order, k) == { order[n] : n \in 1 .. k }

Clear(g, S) == [i \in Idx |-> [j \in Idx |-> IF <<i, j>> \in S THEN 0 ELSE g[i][j]]]

Completes(base) == { Variant(base, v) : v \in 0 .. (NumVariants - 1) }

OneCleared(base) == { Clear(g, {c}) : g \in Completes(base), c \in Cells }

\* boards as generation leaves them: the first k coordinates of a shuffle cleared
Puzzles(base, targets) ==
    { Clear(g, Prefix(Shuffle(s[1]), s[2])) :
        g \in Completes(base),
        s \in (0 .. (NumShuffles - 1)) \X targets }

\* a grid after one unvalidated single-cell write grid[i][j] = d
Written(base) ==
    { [Clear(g, Prefix(Shuffle(s[1]), s[2])) EXCEPT ![w[1]][w[2]] = w[3]] :
        g \in Completes(base),
        s \in (0 .. (NumShuffles - 1)) \X {0, NumClears},
        w \in Idx \X Idx \X (0 .. 9) }

StartGrids(targets) ==
    {EmptyGrid} \cup OneCleared(BaseGrid) \cup Puzzles(BaseGrid, targets)
        \cup Written(BaseGrid)

NoHeld == [kind |-> "none", ref |-> -1, val |-> <<>>]

NoBefore == [grid |-> <<>>, held |-> <<>>]

IdleCreate ==
    /\ difficulty = ""
    /\ cells = <<>>
    /\ ci = 0
    /\ num_zeros = 0
    /\ count = 0
    /\ restores = 0
    /\ filled = <<>>
    /\ err = ""

IdleAccess ==
    /\ held = NoHeld
    /\ lastOp = "none"
    /\ before = NoBefore
    /\ ops = 0

-----------------------------------------------------------------------------
(* solve() step by step, on self.grid.                                     *)

SolveInit(targets) ==
    /\ grid \in StartGrids(targets)
    /\ pc = "enter"
    /\ stack = <<>>
    /\ ret = FALSE
    /\ start = grid
    /\ last = NoCall(grid)
    /\ checks = <<>>
    /\ IdleCreate
    /\ IdleAccess

Init == SolveInit({30, 40, 50, 60})

\* the starts of the termination check: the puzzles with 60 cells cleared,
\* whose searches run to thousands of calls, are left to the safety checks
TermInit == SolveInit({30, 40, 50})

SolverState == [grid |-> grid, stack |-> stack, pc |-> pc, ret |-> ret, last |-> last]

Install(m) ==
    /\ grid' = m.grid
    /\ stack' = m.stack
    /\ pc' = m.pc
    /\ ret' = m.ret
    /\ last' = m.last

SolveEnter ==
    /\ pc = "enter"
    /\ Install(Enter(SolverState))
    /\ UNCHANGED <<start, checks, createVars, accessVars>>

SolveTry ==
    /\ pc = "loop"
    /\ Install(Try(SolverState))
    /\ UNCHANGED <<start, checks, createVars, accessVars>>

SolveReturn ==
    /\ pc = "return"
    /\ Install(Return(SolverState))
    /\ UNCHANGED <<start, checks, createVars, accessVars>>

\* line 112: is_solved() is called on the board solve() left
CallIsSolved ==
    /\ pc = "done"
    /\ Len(checks) < MaxChecks
    /\ checks' = Append(checks, is_solved(grid))
    /\ UNCHANGED <<grid, pc, solveVars, createVars, accessVars>>

Next == SolveEnter \/ SolveTry \/ SolveReturn \/ CallIsSolved

Spec == Init /\ [][Next]_vars

\* solve() is the only code running: a step that can be taken is taken
TermSpec == TermInit /\ [][Next]_vars /\ WF_vars(Next)

-----------------------------------------------------------------------------
(* What "solved" means, stated on the cells and not through the program's  *)
(* queries.                                                                *)

RowVals(g, i) == { g[i][j] : j \in Idx }

ColVals(g, j) == { g[i][j] : i \in Idx }

BoxVals(g, a, b) == { g[3 * a + x][3 * b + y] : x \in 0 .. 2, y \in 0 .. 2 }

IsValidComplete(g) ==
    /\ \A i \in Idx : RowVals(g, i) = Digits /\ ColVals(g, i) = Digits
    /\ \A a \in 0 .. 2 : \A b \in 0 .. 2 : BoxVals(g, a, b) = Digits

EmptySet(g) == { c \in Cells : g[c[1]][c[2]] = 0 }

NumEmpty(g) == Cardinality(EmptySet(g))

-----------------------------------------------------------------------------
(* Claims about solve() and is_solved(), checked under Spec.               *)

\* C1: solve() on the grid of all zeros returns true and leaves a grid with
\* no empty cell whose rows, columns and boxes are permutations of 1-9.
EmptyGridSolved ==
    (start = EmptyGrid /\ pc = "done") => (ret = TRUE /\ IsValidComplete(grid))

EmptyGridSolveDone == start = EmptyGrid /\ pc = "done" /\ NumEmpty(grid) = 0

\* the inputs' complete grid is the program's own
BaseIsSolveOfEmpty == (start = EmptyGrid /\ pc = "done") => grid = BaseGrid

\* C2: is_solved() returns true on a complete grid whose rows, columns and
\* boxes are permutations of 1-9, twice in a row, and false on a grid with an
\* empty cell or a duplicate.
IsSolvedReportsSolved ==
    \A n \in 1 .. Len(checks) : checks[n] = IsValidComplete(grid)

\* C3: whenever solve() returns true, from any starting grid, the grid is
\* complete and free of row, column and box duplicates.
SolveTrueMeansSolved ==
    (pc = "done" /\ ret = TRUE) => IsValidComplete(grid)

\* the start grid is a complete valid grid with exactly one cell set to 0
OneCellCleared(g) ==
    /\ NumEmpty(g) = 1
    /\ LET c == CHOOSE c \in Cells : g[c[1]][c[2]] = 0
       IN  \E d \in Digits : IsValidComplete([g EXCEPT ![c[1]][c[2]] = d])

\* C7: solve() on a complete valid grid with one cell cleared returns true,
\* changes no other cell and leaves the grid complete and duplicate-free.
RoundTrip ==
    (pc = "done" /\ OneCellCleared(start)) =>
        /\ ret = TRUE
        /\ IsValidComplete(grid)
        /\ \A c \in Cells : start[c[1]][c[2]] # 0 => grid[c[1]][c[2]] = start[c[1]][c[2]]

RoundTripDone == pc = "done" /\ OneCellCleared(start) /\ grid # start

\* C8: every nested call of solve() starts with strictly fewer empty cells
\* than its caller, and the top-level call returns.
SolveTerminates ==
    /\ [](pc = "enter" /\ stack # <<>> => NumEmpty(grid) < NumEmpty(Head(stack).entry))
    /\ <>(pc = "done" /\ stack = <<>>)

LongSearchDone == pc = "done" /\ stack = <<>> /\ NumEmpty(start) >= 50 /\ ret = TRUE

\* C9: a call of solve() that returns false leaves the grid as it was when
\* that call started.
UndoOnFailure ==
    /\ (pc = "return" /\ ret = FALSE) => grid = last.entry
    /\ (pc = "done" /\ ret = FALSE) => grid = start

FailedAfterTrying ==
    /\ pc = "return"
    /\ ret = FALSE
    /\ stack # <<>>
    /\ Len(last.valid_nums) >= 2

-----------------------------------------------------------------------------
(* Construction: Board(difficulty), lines 64-106.                          *)

difficulty_values == [easy |-> 30, medium |-> 40, hard |-> 50, expert |-> 60]

TRIALS == 10

\* Python values of different types never compare equal
StrObject(s) == [type |-> "str", val |-> s]

DictObject(d) == [type |-> "dict", val |-> d]

PyEqual(a, b) == a.type = b.type /\ a.val = b.val

\* the labels Board(...) is given: the four tiers and unrecognized ones
Labels == DOMAIN difficulty_values \cup {"insane", ""}

CreateInit ==
    /\ difficulty \in Labels
    /\ grid = <<>>
    /\ pc = "init"
    /\ stack = <<>>
    /\ ret = FALSE
    /\ start = <<>>
    /\ last = NoCall(<<>>)
    /\ checks = <<>>
    /\ cells = <<>>
    /\ ci = 0
    /\ num_zeros = 0
    /\ count = 0
    /\ restores = 0
    /\ filled = <<>>
    /\ err = ""
    /\ IdleAccess

\* line 73: assert difficulty != self.difficulty_values; line 75
BoardInit ==
    /\ pc = "init"
    /\ IF ~PyEqual(StrObject(difficulty), DictObject(difficulty_values))
       THEN pc' = "create" /\ err' = err
       ELSE pc' = "raised" /\ err' = "AssertionError"
    /\ UNCHANGED <<grid, checks, solveVars, difficulty, cells, ci, num_zeros, count,
                   restores, filled, accessVars>>

\* line 86
CreateGrid ==
    /\ pc = "create"
    /\ grid' = EmptyGrid
    /\ pc' = "fill"
    /\ UNCHANGED <<checks, solveVars, createVars, accessVars>>

\* line 87: self.solve() on the empty grid
CreateFill ==
    /\ pc = "fill"
    /\ grid' = solve(grid).grid
    /\ filled' = grid'
    /\ pc' = "lookup"
    /\ UNCHANGED <<checks, solveVars, difficulty, cells, ci, num_zeros, count, restores,
                   err, accessVars>>

\* lines 89-91: the dictionary lookup raises KeyError for an unknown label
CreateLookup ==
    /\ pc = "lookup"
    /\ IF difficulty \in DOMAIN difficulty_values
       THEN /\ num_zeros' = difficulty_values[difficulty]
            /\ \E s \in 0 .. (NumShuffles - 1) : cells' = Shuffle(s)
            /\ ci' = 1
            /\ pc' = "remove"
            /\ err' = err
       ELSE /\ err' = "KeyError"
            /\ pc' = "raised"
            /\ UNCHANGED <<num_zeros, cells, ci>>
    /\ UNCHANGED <<grid, checks, solveVars, difficulty, count, restores, filled, accessVars>>

\* lines 97-100, one trial: a deep copy of the board (g is self.grid with cell
\* (i, j) cleared), the value put back on the copy, the copy solved and asked
\* whether it is solved
SampleTrial(g, i, j, temp) ==
    LET temp_board == [g EXCEPT ![i][j] = temp]
    IN  is_solved(solve(temp_board).grid)

\* lines 96-104: the sampling loop. Every trial copies the same self.grid and
\* solve() draws nothing at random, so the trials have one outcome, solved.
RECURSIVE Sampling(_, _, _)
Sampling(solved, trial, cnt) ==
    IF trial > TRIALS THEN [count |-> cnt, restore |-> FALSE]
    ELSE LET c == IF solved THEN cnt + 1 ELSE cnt
         IN  IF c > 1 THEN [count |-> c, restore |-> TRUE]
             ELSE Sampling(solved, trial + 1, c)

\* faulty variant: the loop stops one cell late
LoopBreaksLate(g, n) == Len(get_empty_cells(g)) > n

\* line 105
LoopBreaks(g, n) == Len(get_empty_cells(g)) >= n

\* lines 92-106, the body of the loop for the coordinate cells[ci]
CreateRemove ==
    /\ pc = "remove"
    /\ LET i == cells[ci][1]
           j == cells[ci][2]
           temp == grid[i][j]
           cleared == [grid EXCEPT ![i][j] = 0]
           s == Sampling(SampleTrial(cleared, i, j, temp), 1, 0)
           after == IF s.restore THEN [cleared EXCEPT ![i][j] = temp] ELSE cleared
       IN  /\ grid' = after
           /\ count' = s.count
           /\ restores' = IF s.restore THEN restores + 1 ELSE restores
           /\ IF LoopBreaks(after, num_zeros) \/ ci = Len(cells)
              THEN pc' = "built" /\ ci' = ci
              ELSE pc' = pc /\ ci' = ci + 1
    /\ UNCHANGED <<checks, solveVars, difficulty, cells, num_zeros, filled, err, accessVars>>

CreateNext == BoardInit \/ CreateGrid \/ CreateFill \/ CreateLookup \/ CreateRemove

CreateSpec == CreateInit /\ [][CreateNext]_vars

\* C4: a constructed board has at least target(d) empty cells and its other
\* cells hold the values of the complete valid grid of the initial solve().
CreatedPuzzle ==
    pc = "built" =>
        /\ NumEmpty(grid) >= difficulty_values[difficulty]
        /\ IsValidComplete(filled)
        /\ \A c \in Cells : grid[c[1]][c[2]] # 0 => grid[c[1]][c[2]] = filled[c[1]][c[2]]

EasyBoardBuilt == pc = "built" /\ difficulty = "easy" /\ NumEmpty(grid) >= 30

\* C6: an unrecognized label is rejected by the validation at the start of
\* construction, before the grid is created, filled or any cell is removed.
BadLabelRejectedFirst ==
    difficulty \notin DOMAIN difficulty_values =>
        (pc \in {"init", "raised"} /\ DOMAIN grid = {})

\* the coordinates the loop of line 92 has finished with
Visited == IF pc = "built" THEN ci ELSE ci - 1

\* C10: no trial is ever counted as solved and no removal is aborted: every
\* visited coordinate stays cleared, and the finished board's empty cells are
\* exactly the first target(d) coordinates of the shuffled order.
NoRemovalAborted ==
    pc \in {"remove", "built"} =>
        /\ count = 0
        /\ restores = 0
        /\ \A n \in 1 .. Visited : grid[cells[n][1]][cells[n][2]] = 0
        /\ pc = "built" => EmptySet(grid) = Prefix(cells, num_zeros)

ExpertBoardBuilt == pc = "built" /\ difficulty = "expert" /\ Visited = 60

-----------------------------------------------------------------------------
(* The read accessors and what a caller can do with the value returned.    *)
(* A returned value is an object: ref >= 0 when it is the list object of   *)
(* the board's row ref, otherwise a new object with the content val.       *)

\* lines 114-118: deepcopy(self.grid)
get_grid(g) == [kind |-> "grid", ref |-> -1, val |-> g]

\* lines 139-146: return self.grid[row], the row list itself
RowObject(g, row) == [kind |-> "row", ref |-> row, val |-> <<>>]

\* lines 148-155: a list comprehension, a new list
ColObject(g, col) == [kind |-> "col", ref |-> -1, val |-> get_col(g, col)]

\* what the caller reads in the object it holds
Deref(h, g) == IF h.ref >= 0 THEN get_row(g, h.ref) ELSE h.val

\* the indices and values the caller's operations are drawn from
EditIdx == {0, BOARD_SIZE - 1}

EditVals == {0, 9}

AccessInit ==
    /\ grid = Clear(BaseGrid, Prefix(Shuffle(0), 30))
    /\ pc = "idle"
    /\ stack = <<>>
    /\ ret = FALSE
    /\ start = grid
    /\ last = NoCall(grid)
    /\ checks = <<>>
    /\ IdleCreate
    /\ IdleAccess

Receive(obj) ==
    /\ ops < MaxOps
    /\ ops' = ops + 1
    /\ held' = obj
    /\ lastOp' = "get"
    /\ before' = [grid |-> grid, held |-> Deref(held, grid)]
    /\ UNCHANGED <<grid, pc, checks, solveVars, createVars>>

CallGetGrid == Receive(get_grid(grid))

CallGetRow == \E row \in Idx : Receive(RowObject(grid, row))

CallGetCol == \E col \in Idx : Receive(ColObject(grid, col))

\* the caller assigns to an element of the value it holds
CallerWrite ==
    /\ ops < MaxOps
    /\ held.kind # "none"
    /\ \E i \in EditIdx, j \in EditIdx, v \in EditVals :
          IF held.ref >= 0
          THEN grid' = [grid EXCEPT ![held.ref][j] = v] /\ held' = held
          ELSE /\ grid' = grid
               /\ held' = IF held.kind = "grid"
                          THEN [held EXCEPT !.val[i][j] = v]
                          ELSE [held EXCEPT !.val[j + 1] = v]
    /\ ops' = ops + 1
    /\ lastOp' = "write"
    /\ before' = [grid |-> grid, held |-> Deref(held, grid)]
    /\ UNCHANGED <<pc, checks, solveVars, createVars>>

\* the board changes after the value was returned: solve()
BoardSolve ==
    /\ ops < MaxOps
    /\ grid' = solve(grid).grid
    /\ ops' = ops + 1
    /\ lastOp' = "change"
    /\ before' = [grid |-> grid, held |-> Deref(held, grid)]
    /\ UNCHANGED <<pc, checks, solveVars, createVars, held>>

\* the board changes after the value was returned: a cell removal or write
BoardSetCell ==
    /\ ops < MaxOps
    /\ \E i \in EditIdx, j \in EditIdx, v \in EditVals :
          grid' = [grid EXCEPT ![i][j] = v]
    /\ ops' = ops + 1
    /\ lastOp' = "change"
    /\ before' = [grid |-> grid, held |-> Deref(held, grid)]
    /\ UNCHANGED <<pc, checks, solveVars, createVars, held>>

AccessNext ==
    CallGetGrid \/ CallGetRow \/ CallGetCol \/ CallerWrite \/ BoardSolve \/ BoardSetCell

AccessSpec == AccessInit /\ [][AccessNext]_vars

\* C5: a write into a value returned by get_grid, get_row or get_col changes
\* no cell of the board, and a change of the board changes no returned value.
AccessorsShareNothing ==
    /\ lastOp = "write" => grid = before.grid
    /\ lastOp = "change" => Deref(held, grid) = before.held

=============================================================================
